---------------------------- MODULE Spec2Model ----------------------------
(***************************************************************************)
(* A model of the chiselc build wrapper.                                   *)
(*                                                                         *)
(* Two revisions of the script live in the repository:                     *)
(*   src/chiselc.py          the resolver revision: seeds are looked up in *)
(*                           the Portage package database and every        *)
(*                           metadata field is aggregated over the         *)
(*                           dependency graph by Package.get_field_recursive*)
(*   src/chiselc/chiselc.py  the pipeline revision: classpath override,    *)
(*                           dependency extraction, resources, scalac, jar *)
(*                                                                         *)
(* Python strings are modelled as sequences of pieces; the piece "/" is    *)
(* the path separator, "=" the exact-version marker, "." and ".." the      *)
(* special path components.  Every string operation of the code (rfind,    *)
(* slicing, startswith, os.path.join, basename, abspath) is computed on    *)
(* those sequences.                                                        *)
(***************************************************************************)
EXTENDS Integers, Sequences, FiniteSets, TLC

VARIABLES
  installed,       \* package names whose directory exists under pkgdb_path
  dependFile,      \* package name -> tokens of its DEPEND file, or NoFile
  ebuildFile,      \* package name -> lines of its ebuild file, or NoFile
  args,            \* the parsed command line
  pc,              \* position in the script
  exitcode,        \* process exit status, read once pc = "exit"
  packages,        \* packages[]: the seed Package objects (by name)
  pkgIdx,          \* index of the seed a "for package in packages" loop is at
  fieldname,       \* argument of the running get_field_recursive call
  fringe,          \* get_field_recursive: the BFS queue
  field_contents,  \* get_field_recursive: the accumulated values
  seen,            \* get_field_recursive: names already enqueued by the loop
  scalacopts,      \* the aggregated compiler options
  classpaths,      \* the aggregated / merged classpath
  calls,           \* external processes invoked so far, in order
  failure,         \* why the script stopped early, None otherwise
  visits,          \* receivers of get_field in the running call, in order
  aggVisits,       \* receivers of get_field over a whole seed-set aggregate
  package_classpaths,  \* pipeline revision: the package-derived classpath
  extractIdx,      \* pipeline revision: index of the classpath entry to extract
  stages,          \* pipeline revision: the stages completed, in order
  nonexistent,     \* the classpath paths at which no file exists
  classpath_errors, \* the paths reported as "Required classpath ... doesn't exist"
  depend_reads     \* per seed Package object: the times its dependency list
                   \* was read from the package database

fsVars   == <<installed, dependFile, ebuildFile, nonexistent>>
callVars == <<fieldname, fringe, field_contents, seen, visits>>
pipeVars == <<package_classpaths, extractIdx, stages>>
vars     == <<installed, dependFile, ebuildFile, args, pc, exitcode, packages,
              pkgIdx, fieldname, fringe, field_contents, seen, scalacopts,
              classpaths, calls, classpath_errors, failure, visits, aggVisits,
              package_classpaths, extractIdx, stages, nonexistent,
              classpath_errors, depend_reads>>

\* Python's None and a value that is not None
None      == [none |-> TRUE]
Some(v)   == [none |-> FALSE, value |-> v]
\* a file that does not exist, and one with the given content
NoFile    == [exists |-> FALSE]
File(c)   == [exists |-> TRUE, content |-> c]
NoFailure == [kind |-> "none"]

-----------------------------------------------------------------------------
(* Bounds of the explored inputs *)

MaxDeps  == 2   \* tokens in one DEPEND file
MaxEdges == 3   \* tokens in all DEPEND files together
MaxSeeds == 2   \* tokens in --portagePkgDepends
MaxVisits == 8  \* loop passes of one get_field_recursive call that are followed

-----------------------------------------------------------------------------
(* Strings *)

SeqsUpTo(S, n) == UNION { [1..k -> S] : k \in 0..n }

RECURSIVE SumLen(_, _)
SumLen(f, D) ==
  IF D = {} THEN 0
  ELSE LET d == CHOOSE x \in D : TRUE
       IN  (IF f[d].exists THEN Len(f[d].content) ELSE 0) + SumLen(f, D \ {d})

\* str.rfind("/"): the last index of the separator, 0-based, -1 when absent
RECURSIVE rfind(_, _)
rfind(s, piece) ==
  IF s = <<>> THEN -1
  ELSE IF s[Len(s)] = piece THEN Len(s) - 1
  ELSE rfind(SubSeq(s, 1, Len(s) - 1), piece)

Range(q) == { q[i] : i \in DOMAIN q }
Count(q, x) == Cardinality({ i \in DOMAIN q : q[i] = x })

\* s[k:] for a 0-based k
SliceFrom(s, k) == SubSeq(s, k + 1, Len(s))

-----------------------------------------------------------------------------
(* The package database *)

PA == <<"dev", "/", "a-1.0">>
PB == <<"dev", "/", "b-1.0">>
PC == <<"sci", "/", "a-1.0">>   \* another category, same non-category name
Names == {PA, PB, PC}

Versioned(name) == <<"=">> \o name

pkgdb_path  == <<"/", "db">>
pkgjar_path == <<"/", "jars">>

\* os.path.join(a, b) for one b
join(a, b) ==
  IF b # <<>> /\ b[1] = "/" THEN b
  ELSE IF a = <<>> \/ a[Len(a)] = "/" THEN a \o b
  ELSE a \o <<"/">> \o b

\* parse_portage_depends: the names with the marker stripped, or the raise
RECURSIVE parse_portage_depends(_)
parse_portage_depends(depends_list) ==
  IF depends_list = <<>> THEN [raised |-> FALSE, out_list |-> <<>>]
  ELSE LET depend == Head(depends_list)
       IN  IF depend = <<>> \/ depend[1] # "="
           THEN [raised |-> TRUE, out_list |-> <<>>, depend |-> depend]
           ELSE LET rest == parse_portage_depends(Tail(depends_list))
                IN  IF rest.raised THEN rest
                    ELSE [raised |-> FALSE,
                          out_list |-> <<SliceFrom(depend, 1)>> \o rest.out_list]

\* PortageInstalledPackage.__init__ of the resolver revision: the directory test
IsInstalled(package_name) == package_name \in installed

\* get_packages without the directory test of __init__
get_packagesUnchecked(names) == [status |-> "ok", list |-> names]

\* PortagePkgList.get_package over a list, in order: the first name that is
\* not installed ends the process
RECURSIVE get_packages(_)
get_packages(names) ==
  IF names = <<>> THEN [status |-> "ok", list |-> <<>>]
  ELSE IF ~IsInstalled(Head(names))
       THEN [status |-> "exit", list |-> <<>>,
             failure |-> [kind |-> "not_installed", name |-> Head(names)]]
       ELSE LET rest == get_packages(Tail(names))
            IN  IF rest.status # "ok" THEN rest
                ELSE [status |-> "ok", list |-> <<Head(names)>> \o rest.list]

get_pkgname(package) == package

get_noncategory_pkgname(package) ==
  LET sep == rfind(get_pkgname(package), "/")
  IN  SliceFrom(get_pkgname(package), sep + 1)

\* PortageInstalledPackage.get_dependencies of the resolver revision: reads
\* the DEPEND file at every call
get_dependencies(package) ==
  IF ~dependFile[package].exists THEN [status |-> "ok", list |-> <<>>]
  ELSE LET parsed == parse_portage_depends(dependFile[package].content)
       IN  IF parsed.raised
           THEN [status |-> "raise", list |-> <<>>,
                 failure |-> [kind |-> "unversioned", name |-> parsed.depend]]
           ELSE get_packages(parsed.out_list)

\* where "$" of a regular expression matches: at the end of the string, or
\* before a newline that ends it
DollarAt(s, k) == k = Len(s) + 1 \/ (k = Len(s) /\ s[k] = "\n")

Whitespace == {" ", "\n"}

\* re.match(r'^\s*SCALACOPTS\s*=\s*"([^"]*)\s*$"', line): the set of
\* <<i, k>> such that the line is \s* SCALACOPTS \s* = \s* " up to piece i,
\* [^"]*\s* fills i+1..k-1, "$" matches at k and the closing quote is piece k
ScalacoptsMatches(line) ==
  { m \in (1..Len(line)) \X (1..Len(line) + 1) :
      LET i == m[1]
          k == m[2]
          head == SelectSeq(SubSeq(line, 1, i), LAMBDA c : c \notin Whitespace)
      IN  /\ head = <<"SCALACOPTS", "=", "\"">>
          /\ line[i] = "\""
          /\ i < k
          /\ \A j \in (i + 1)..(k - 1) : line[j] # "\""
          /\ DollarAt(line, k)
          /\ k <= Len(line) /\ line[k] = "\"" }

\* match.group(1).split() of the first line that matches, [] when none does
RECURSIVE ebuild_scalacopts(_)
ebuild_scalacopts(lines) ==
  IF lines = <<>> THEN <<>>
  ELSE LET ms == ScalacoptsMatches(Head(lines))
       IN  IF ms # {}
           THEN LET m == CHOOSE x \in ms : TRUE
                IN  SelectSeq(SubSeq(Head(lines), m[1] + 1, m[2] - 1),
                              LAMBDA c : c \notin Whitespace)
           ELSE ebuild_scalacopts(Tail(lines))

\* PortageInstalledPackage.get_field of the resolver revision
get_field(package, name) ==
  IF name = "classpath"
  THEN [status |-> "ok",
        value |-> <<join(pkgjar_path,
                         get_noncategory_pkgname(package) \o <<".jar">>)>>]
  ELSE IF name = "scalacopts"
  THEN IF ~ebuildFile[package].exists
       THEN [status |-> "exit", value |-> <<>>,
             failure |-> [kind |-> "no_ebuild", name |-> package]]
       ELSE [status |-> "ok", value |-> ebuild_scalacopts(ebuildFile[package].content)]
  ELSE [status |-> "raise", value |-> <<>>,
        failure |-> [kind |-> "unknown_field", name |-> name]]

-----------------------------------------------------------------------------
(* The explored inputs *)

VersionedTokens == { Versioned(n) : n \in Names }

\* the DEPEND files of a database in which every package is installed and
\* every reference carries the exact-version marker
DependFiles ==
  { f \in [Names -> {NoFile} \cup
                     { File(c) : c \in SeqsUpTo(VersionedTokens, MaxDeps) \ {<<>>} }] :
      SumLen(f, Names) <= MaxEdges }

SeedArgs == SeqsUpTo(VersionedTokens, MaxSeeds)

\* The configurations explored differ in at most one respect from the plain
\* one (every package installed with its ebuild file, every reference marked,
\* --scalacOpts feature, --outputJar out.jar): a package that is not
\* installed, an installed package without ebuild file, a reference without
\* the marker (in a DEPEND file or on the command line), or an option that is
\* absent or empty
NoFault == [kind |-> "none", name |-> <<>>]
Faults ==
  {NoFault}
    \cup { [kind |-> k, name |-> n] :
             k \in {"not_installed", "no_ebuild", "unversioned_dep"}, n \in Names }
    \cup { [kind |-> k, name |-> <<>>] :
             k \in {"unversioned_seed", "no_scalacOpts", "empty_scalacOpts",
                    "no_outputJar"} }

Unmark(tokens) ==
  IF tokens = <<>> THEN tokens ELSE <<SliceFrom(tokens[1], 1)>> \o Tail(tokens)

EbuildLines == <<<<"SCALACOPTS", "=", "\"", "deprecation", "\"", "\n">>>>

ScalacOptsArg(fault) ==
  IF fault.kind = "no_scalacOpts" THEN None
  ELSE IF fault.kind = "empty_scalacOpts" THEN Some(<<>>)
  ELSE Some(<< <<"feature">> >>)

OutputJarArg(fault) ==
  IF fault.kind = "no_outputJar" THEN None ELSE Some(<<"out", ".jar">>)

InitFiles(g, fault) ==
  /\ installed = { n \in Names : ~(fault.kind = "not_installed" /\ fault.name = n) }
  /\ dependFile =
       [n \in Names |->
          IF fault.kind = "not_installed" /\ fault.name = n THEN NoFile
          ELSE IF fault.kind = "unversioned_dep" /\ fault.name = n /\ g[n].exists
          THEN File(Unmark(g[n].content))
          ELSE g[n]]
  /\ ebuildFile =
       [n \in Names |->
          IF fault.kind \in {"not_installed", "no_ebuild"} /\ fault.name = n
          THEN NoFile ELSE File(EbuildLines)]
  /\ nonexistent = IF fault.kind = "nonexistent" THEN fault.name ELSE {}

InitRun ==
  /\ exitcode = 0
  /\ failure = NoFailure
  /\ packages = <<>>
  /\ pkgIdx = 0
  /\ fieldname = ""
  /\ fringe = <<>>
  /\ field_contents = <<>>
  /\ seen = {}
  /\ scalacopts = <<>>
  /\ classpaths = <<>>
  /\ calls = <<>>
  /\ classpath_errors = <<>>
  /\ depend_reads = <<>>
  /\ visits = <<>>
  /\ aggVisits = <<>>
  /\ package_classpaths = <<>>
  /\ extractIdx = 0
  /\ stages = <<>>

\* the resolver revision, src/chiselc.py, after parse_args
InitWith(faults, seedArgs) ==
  /\ \E g \in DependFiles, fault \in faults :
       /\ InitFiles(g, fault)
       /\ \E seeds \in seedArgs :
            args = [portagePkgDepends |->
                      IF fault.kind = "unversioned_seed" THEN Unmark(seeds)
                      ELSE seeds,
                    scalacOpts |-> ScalacOptsArg(fault),
                    outputJar |-> OutputJarArg(fault)]
  /\ pc = "start"
  /\ InitRun

Init == InitWith(Faults, SeedArgs)

-----------------------------------------------------------------------------
(* The resolver revision: src/chiselc.py *)

\* sys.exit(1), or an exception that reaches the top level
Abort(f) ==
  /\ pc' = "exit"
  /\ exitcode' = 1
  /\ failure' = f

\* line 160: parse_portage_depends(args.portagePkgDepends), and lines 162-163:
\* one Package object per name
LookupSeeds ==
  /\ pc = "start"
  /\ LET parsed == parse_portage_depends(args.portagePkgDepends)
         found  == get_packages(parsed.out_list)
     IN  IF parsed.raised
         THEN /\ Abort([kind |-> "unversioned", name |-> parsed.depend])
              /\ UNCHANGED <<packages, pkgIdx, depend_reads>>
         ELSE IF found.status # "ok"
         THEN /\ Abort(found.failure)
              /\ UNCHANGED <<packages, pkgIdx, depend_reads>>
         ELSE /\ packages' = found.list
              /\ depend_reads' = [i \in DOMAIN found.list |-> 0]
              /\ pkgIdx' = 1
              /\ pc' = "opts_loop"
              /\ UNCHANGED <<exitcode, failure>>
  /\ UNCHANGED <<fsVars, pipeVars, args, callVars, scalacopts, classpaths, calls,
                 classpath_errors, aggVisits>>

LoopField == IF pc \in {"opts_loop", "opts_bfs"} THEN "scalacopts" ELSE "classpath"

\* GfrEnter without the start package's own field
GfrEnterNoOwn(self, name) ==
  LET deps == get_dependencies(self)
  IN  IF deps.status # "ok" THEN [status |-> deps.status, failure |-> deps.failure]
      ELSE [status |-> "ok",
            fringe |-> deps.list,
            field_contents |-> <<>>,
            seen |-> {},
            visited |-> <<>>]

\* get_field_recursive, lines 41-43: the fringe is the start package's
\* dependency list, the contents start with its own field, seen is empty
GfrEnter(self, name) ==
  LET deps == get_dependencies(self)
      own  == get_field(self, name)
  IN  IF deps.status # "ok" THEN [status |-> deps.status, failure |-> deps.failure]
      ELSE IF own.status # "ok" THEN [status |-> own.status, failure |-> own.failure]
      ELSE [status |-> "ok",
            fringe |-> deps.list,
            field_contents |-> own.value,
            seen |-> {},
            visited |-> <<self>>]

\* Discover without the test against seen
DiscoverNoSeen(deps, seenSet, queue) ==
  [seen |-> seenSet \cup Range(deps), fringe |-> queue \o deps]

\* lines 49-52 over one dependency list: the names not yet in seen are added
\* to it and appended to the fringe
RECURSIVE Discover(_, _, _)
Discover(deps, seenSet, queue) ==
  IF deps = <<>> THEN [seen |-> seenSet, fringe |-> queue]
  ELSE IF get_pkgname(Head(deps)) \notin seenSet
       THEN Discover(Tail(deps), seenSet \cup {get_pkgname(Head(deps))},
                     Append(queue, Head(deps)))
       ELSE Discover(Tail(deps), seenSet, queue)

\* GfrIterate that leaves out a value the contents already hold
GfrIterateDedup(queue, contents, seenSet, name) ==
  LET dependency_package == Head(queue)
      own  == get_field(dependency_package, name)
      deps == get_dependencies(dependency_package)
      next == Discover(deps.list, seenSet, Tail(queue))
  IN  IF own.status # "ok" THEN [status |-> own.status, failure |-> own.failure]
      ELSE IF deps.status # "ok" THEN [status |-> deps.status, failure |-> deps.failure]
      ELSE [status |-> "ok",
            fringe |-> next.fringe,
            field_contents |->
              contents \o SelectSeq(own.value, LAMBDA v : v \notin Range(contents)),
            seen |-> next.seen,
            visited |-> <<dependency_package>>]

\* get_field_recursive, lines 45-52: one iteration of the while loop
GfrIterate(queue, contents, seenSet, name) ==
  LET dependency_package == Head(queue)
      own  == get_field(dependency_package, name)
      deps == get_dependencies(dependency_package)
      next == Discover(deps.list, seenSet, Tail(queue))
  IN  IF own.status # "ok" THEN [status |-> own.status, failure |-> own.failure]
      ELSE IF deps.status # "ok" THEN [status |-> deps.status, failure |-> deps.failure]
      ELSE [status |-> "ok",
            fringe |-> next.fringe,
            field_contents |-> contents \o own.value,
            seen |-> next.seen,
            visited |-> <<dependency_package>>]

\* the call of get_field_recursive at line 179 or 189
GfrCall ==
  /\ pc \in {"opts_loop", "cp_loop"}
  /\ pkgIdx <= Len(packages)
  /\ depend_reads' = [depend_reads EXCEPT ![pkgIdx] = @ + 1]
  /\ LET r == GfrEnter(packages[pkgIdx], LoopField)
     IN  IF r.status # "ok"
         THEN /\ Abort(r.failure)
              /\ UNCHANGED <<callVars, aggVisits>>
         ELSE /\ fieldname' = LoopField
              /\ fringe' = r.fringe
              /\ field_contents' = r.field_contents
              /\ seen' = r.seen
              /\ visits' = r.visited
              /\ aggVisits' = aggVisits \o r.visited
              /\ pc' = IF pc = "opts_loop" THEN "opts_bfs" ELSE "cp_bfs"
              /\ UNCHANGED <<exitcode, failure>>
  /\ UNCHANGED <<fsVars, pipeVars, args, packages, pkgIdx, scalacopts, classpaths,
                 calls, classpath_errors>>

\* the while loop of get_field_recursive, line 44, and one pass of its body
GfrStep ==
  /\ pc \in {"opts_bfs", "cp_bfs"}
  /\ fringe # <<>>
  /\ Len(visits) < MaxVisits
  /\ LET r == GfrIterate(fringe, field_contents, seen, fieldname)
     IN  IF r.status # "ok"
         THEN /\ Abort(r.failure)
              /\ UNCHANGED <<callVars, aggVisits>>
         ELSE /\ fringe' = r.fringe
              /\ field_contents' = r.field_contents
              /\ seen' = r.seen
              /\ visits' = visits \o r.visited
              /\ aggVisits' = aggVisits \o r.visited
              /\ UNCHANGED <<fieldname, pc, exitcode, failure>>
  /\ UNCHANGED <<fsVars, pipeVars, args, packages, pkgIdx, scalacopts, classpaths,
                 calls, classpath_errors, depend_reads>>

\* get_field_recursive, line 53, and the caller's extend (lines 179, 189-190)
GfrReturn ==
  /\ pc \in {"opts_bfs", "cp_bfs"}
  /\ fringe = <<>>
  /\ IF pc = "opts_bfs"
     THEN /\ scalacopts' = scalacopts \o field_contents
          /\ pc' = "opts_loop"
          /\ UNCHANGED classpaths
     ELSE /\ classpaths' = classpaths \o field_contents
          /\ pc' = "cp_loop"
          /\ UNCHANGED scalacopts
  /\ pkgIdx' = pkgIdx + 1
  /\ UNCHANGED <<fsVars, pipeVars, args, packages, callVars, calls,
                 classpath_errors, depend_reads, exitcode, failure,
                 aggVisits>>

\* "-" + scalacopt for every element
RECURSIVE Prefixed(_)
Prefixed(opts) ==
  IF opts = <<>> THEN <<>>
  ELSE <<<<"-">> \o Head(opts)>> \o Prefixed(Tail(opts))

\* lines 180-181: the caller's options are appended, then every option is
\* prefixed; extending by None is a TypeError
FinishScalacopts ==
  /\ pc = "opts_loop"
  /\ pkgIdx > Len(packages)
  /\ IF args.scalacOpts = None
     THEN /\ Abort([kind |-> "type_error", name |-> "scalacOpts"])
          /\ UNCHANGED <<scalacopts, pkgIdx, callVars, aggVisits>>
     ELSE /\ scalacopts' = Prefixed(scalacopts \o args.scalacOpts.value)
          /\ pc' = "cp_loop"
          /\ pkgIdx' = 1
          /\ fieldname' = ""
          /\ field_contents' = <<>>
          /\ seen' = {}
          /\ visits' = <<>>
          /\ aggVisits' = <<>>
          /\ UNCHANGED <<fringe, exitcode, failure>>
  /\ UNCHANGED <<fsVars, pipeVars, args, packages, classpaths, calls,
                 classpath_errors, depend_reads>>

ReturnCodes == {0, 1, 2}

\* os.path.exists of a classpath path
exists(path) == path \notin nonexistent

\* lines 194-196: the paths that are reported as missing, in order
MissingClasspaths(cps) == SelectSeq(cps, LAMBDA c : ~exists(c))

\* ColonJoined that leaves out the paths that do not exist
RECURSIVE ColonJoinedExisting(_)
ColonJoinedExisting(cps) ==
  IF cps = <<>> THEN <<>>
  ELSE IF ~exists(Head(cps)) THEN ColonJoinedExisting(Tail(cps))
  ELSE LET rest == ColonJoinedExisting(Tail(cps))
       IN  IF rest = <<>> THEN Head(cps) ELSE Head(cps) \o <<":">> \o rest

\* ':'.join(classpaths)
RECURSIVE ColonJoined(_)
ColonJoined(cps) ==
  IF cps = <<>> THEN <<>>
  ELSE IF Len(cps) = 1 THEN cps[1]
  ELSE cps[1] \o <<":">> \o ColonJoined(Tail(cps))

\* lines 193-200: the -classpath argument, absent for an empty classpath
ClasspathArg(cps) == IF cps = <<>> THEN None ELSE Some(ColonJoined(cps))

\* lines 193-208: the classpath string is added and scalac runs
RunScalac ==
  /\ pc = "cp_loop"
  /\ pkgIdx > Len(packages)
  /\ \E scalac_returncode \in ReturnCodes :
       /\ calls' = Append(calls, [cmd |-> "scalac", opts |-> scalacopts,
                                  classpath |-> classpaths,
                                  classpath_str |-> ClasspathArg(classpaths),
                                  returncode |-> scalac_returncode])
       /\ classpath_errors' = classpath_errors \o MissingClasspaths(classpaths)
       /\ IF scalac_returncode # 0
          THEN Abort([kind |-> "scalac", name |-> scalac_returncode])
          ELSE /\ pc' = "jar"
               /\ UNCHANGED <<exitcode, failure>>
  /\ UNCHANGED <<fsVars, pipeVars, args, packages, pkgIdx, callVars, scalacopts,
                 classpaths, depend_reads, aggVisits>>

\* lines 211-230: the output JAR, when one is asked for
RunJar ==
  /\ pc = "jar"
  /\ IF args.outputJar # None /\ args.outputJar.value # <<>>
     THEN \E jar_returncode \in ReturnCodes :
            /\ calls' = Append(calls, [cmd |-> "jar", mode |-> "cf",
                                       returncode |-> jar_returncode])
            /\ IF jar_returncode # 0
               THEN Abort([kind |-> "jar", name |-> jar_returncode])
               ELSE /\ pc' = "exit"
                    /\ exitcode' = 0
                    /\ UNCHANGED failure
     ELSE /\ pc' = "exit"
          /\ exitcode' = 0
          /\ UNCHANGED <<calls, failure>>
  /\ UNCHANGED <<fsVars, pipeVars, args, packages, pkgIdx, callVars, scalacopts,
                 classpaths, classpath_errors, depend_reads, aggVisits>>

Next ==
  \/ LookupSeeds
  \/ GfrCall
  \/ GfrStep
  \/ GfrReturn
  \/ FinishScalacopts
  \/ RunScalac
  \/ RunJar

Spec == Init /\ [][Next]_vars

-----------------------------------------------------------------------------
(* Paths (posixpath) *)

cwd == <<"/", "work">>

isabs(path) == path # <<>> /\ path[1] = "/"

\* os.path.basename: what follows the last separator
basename(path) == SliceFrom(path, rfind(path, "/") + 1)

\* the first index of piece in s, 1-based, 0 when absent
RECURSIVE find(_, _)
find(s, piece) ==
  IF s = <<>> THEN 0
  ELSE IF s[1] = piece THEN 1
  ELSE LET r == find(Tail(s), piece) IN IF r = 0 THEN 0 ELSE r + 1

\* str.split("/")
RECURSIVE split(_)
split(s) ==
  LET i == find(s, "/")
  IN  IF i = 0 THEN <<s>>
      ELSE <<SubSeq(s, 1, i - 1)>> \o split(SubSeq(s, i + 1, Len(s)))

\* "/".join(comps)
RECURSIVE joined(_)
joined(comps) ==
  IF comps = <<>> THEN <<>>
  ELSE IF Len(comps) = 1 THEN comps[1]
  ELSE comps[1] \o <<"/">> \o joined(Tail(comps))

\* the loop of os.path.normpath over the components
RECURSIVE normComps(_, _, _)
normComps(comps, new_comps, initial_slashes) ==
  IF comps = <<>> THEN new_comps
  ELSE LET comp == Head(comps)
       IN  IF comp = <<>> \/ comp = <<".">>
           THEN normComps(Tail(comps), new_comps, initial_slashes)
           ELSE IF \/ comp # <<"..">>
                   \/ (initial_slashes = 0 /\ new_comps = <<>>)
                   \/ (new_comps # <<>> /\ new_comps[Len(new_comps)] = <<"..">>)
           THEN normComps(Tail(comps), Append(new_comps, comp), initial_slashes)
           ELSE IF new_comps # <<>>
           THEN normComps(Tail(comps), SubSeq(new_comps, 1, Len(new_comps) - 1),
                          initial_slashes)
           ELSE normComps(Tail(comps), new_comps, initial_slashes)

normpath(path) ==
  IF path = <<>> THEN <<".">>
  ELSE LET initial_slashes ==
             IF ~isabs(path) THEN 0
             ELSE IF Len(path) >= 2 /\ path[2] = "/"
                     /\ ~(Len(path) >= 3 /\ path[3] = "/") THEN 2
             ELSE 1
           body == joined(normComps(split(path), <<>>, initial_slashes))
           out  == [i \in 1..initial_slashes |-> "/"] \o body
       IN  IF out = <<>> THEN <<".">> ELSE out

abspath(path) == normpath(IF isabs(path) THEN path ELSE join(cwd, path))

-----------------------------------------------------------------------------
(* The pipeline revision: src/chiselc/chiselc.py *)

MaxCallerCp == 2   \* entries of --classpath

CallerPaths ==
  { <<"a-1.0", ".jar">>,
    <<".", "/", "override", "/", "a-1.0", ".jar">>,
    <<"/", "lib", "/", "x", ".jar">>,
    <<"/", "jars", "/", "a-1.0", ".jar">>,
    <<"b-1.0", ".jar", "/", ".">> }

OutputJarArgs == {None, Some(<<>>), Some(<<"out", ".jar">>)}

\* the classpath paths at which a file may be missing
MaybeMissing ==
  { <<"/", "jars", "/", "a-1.0", ".jar">>,
    <<"/", "jars", "/", "b-1.0", ".jar">>,
    <<"/", "work", "/", "a-1.0", ".jar">> }

\* at most one departure from the plain configuration, as above
PipeFaults ==
  {NoFault}
    \cup { [kind |-> k, name |-> n] :
             k \in {"not_installed", "no_ebuild"}, n \in Names }
    \cup { [kind |-> k, name |-> <<>>] :
             k \in {"unversioned_seed", "no_resourceDirs", "empty_scalacOpts",
                    "jarEntryPoint"} }
    \cup { [kind |-> "nonexistent", name |-> S] : S \in SUBSET MaybeMissing \ {{}} }

\* main() after parse_args, line 181
PipeInitWith(dependFiles, faults, seedArgs, callerCps) ==
  /\ \E g \in dependFiles, fault \in faults :
       /\ InitFiles(g, fault)
       /\ \E seeds \in seedArgs, cp \in callerCps,
             link \in BOOLEAN, oj \in OutputJarArgs :
            args = [portagePkgDepends |->
                      IF fault.kind = "unversioned_seed" THEN Unmark(seeds)
                      ELSE seeds,
                    classpath |-> cp,
                    linkJars |-> link,
                    outputJar |-> oj,
                    resourceDirs |->
                      IF fault.kind = "no_resourceDirs" THEN <<>>
                      ELSE << <<"res">> >>,
                    scalacOpts |->
                      IF fault.kind = "empty_scalacOpts" THEN <<>>
                      ELSE << <<"feature">> >>,
                    jarEntryPoint |->
                      IF fault.kind = "jarEntryPoint" THEN Some(<<"Main">>)
                      ELSE None]
  /\ pc = "main"
  /\ InitRun

\* no package has a DEPEND file
NoDependFiles == { [n \in Names |-> NoFile] }

PipeInit ==
  PipeInitWith(NoDependFiles, PipeFaults, SeedArgs, SeqsUpTo(CallerPaths, MaxCallerCp))

\* Truthy that holds of every optional string
TruthyAlways(opt) == TRUE

\* bool(x) of an optional string
Truthy(opt) == opt # None /\ opt.value # <<>>

\* re.match(r'^\s*([^=\s])+\s*=\s*"([^"]*)\s*$"', line), as ScalacoptsMatches
EbuildVarMatches(line) ==
  { m \in (1..Len(line)) \X (1..Len(line) + 1) :
      LET i == m[1]
          k == m[2]
          head == SelectSeq(SubSeq(line, 1, i), LAMBDA c : c \notin Whitespace)
      IN  /\ Len(head) = 3
          /\ head[1] # "=" /\ head[2] = "=" /\ head[3] = "\""
          /\ line[i] = "\""
          /\ i < k
          /\ \A j \in (i + 1)..(k - 1) : line[j] # "\""
          /\ DollarAt(line, k)
          /\ k <= Len(line) /\ line[k] = "\"" }

\* PipeGetPackages without the tests of __init__
PipeGetPackagesUnchecked(names) == [status |-> "ok", list |-> names]

\* PortageInstalledPackage.__init__, lines 67-88, for the names in order: the
\* directory test exits, opening a missing ebuild file raises, a variable
\* matched on two lines exits
RECURSIVE PipeGetPackages(_)
PipeGetPackages(names) ==
  IF names = <<>> THEN [status |-> "ok", list |-> <<>>]
  ELSE LET package_name == Head(names)
       IN  IF ~IsInstalled(package_name)
           THEN [status |-> "exit", list |-> <<>>,
                 failure |-> [kind |-> "not_installed", name |-> package_name]]
           ELSE IF ~ebuildFile[package_name].exists
           THEN [status |-> "raise", list |-> <<>>,
                 failure |-> [kind |-> "no_ebuild", name |-> package_name]]
           ELSE IF Cardinality({ i \in DOMAIN ebuildFile[package_name].content :
                      EbuildVarMatches(ebuildFile[package_name].content[i]) # {} }) > 1
           THEN [status |-> "exit", list |-> <<>>,
                 failure |-> [kind |-> "defined_twice", name |-> package_name]]
           ELSE LET rest == PipeGetPackages(Tail(names))
                IN  IF rest.status # "ok" THEN rest
                    ELSE [status |-> "ok", list |-> <<package_name>> \o rest.list]

\* PortageInstalledPackage.get_field, lines 115-120
PipeGetField(package, name) ==
  IF name = "classpath"
  THEN [status |-> "ok",
        value |-> <<join(pkgjar_path,
                         get_noncategory_pkgname(package) \o <<".jar">>)>>]
  ELSE [status |-> "raise", value |-> <<>>,
        failure |-> [kind |-> "unknown_field", name |-> name]]

\* lines 190-193
PipeLookupSeeds ==
  /\ pc = "main"
  /\ LET parsed == parse_portage_depends(args.portagePkgDepends)
         found  == PipeGetPackages(parsed.out_list)
     IN  IF parsed.raised
         THEN /\ Abort([kind |-> "unversioned", name |-> parsed.depend])
              /\ UNCHANGED <<packages, depend_reads>>
         ELSE IF found.status # "ok"
         THEN /\ Abort(found.failure)
              /\ UNCHANGED <<packages, depend_reads>>
         ELSE /\ packages' = found.list
              /\ depend_reads' = [i \in DOMAIN found.list |-> 1]
              /\ pc' = "classpath"
              /\ UNCHANGED <<exitcode, failure>>
  /\ UNCHANGED <<fsVars, pipeVars, args, pkgIdx, callVars, scalacopts,
                 classpaths, calls, classpath_errors, aggVisits>>

\* lines 196-201: the classpath field of every seed, in order
RECURSIVE PackageClasspaths(_)
PackageClasspaths(pkgs) ==
  IF pkgs = <<>> THEN <<>>
  ELSE PipeGetField(Head(pkgs), "classpath").value \o PackageClasspaths(Tail(pkgs))

\* lines 205-206
classpaths_args_basenames(cp) == [i \in DOMAIN cp |-> basename(cp[i])]

\* Surviving that drops nothing
SurvivingAll(pkg_cps, basenames) == pkg_cps

\* lines 207-211: the package classpaths whose basename no --classpath
\* argument has
RECURSIVE Surviving(_, _)
Surviving(pkg_cps, basenames) ==
  IF pkg_cps = <<>> THEN <<>>
  ELSE IF basename(Head(pkg_cps)) \in Range(basenames)
       THEN Surviving(Tail(pkg_cps), basenames)
       ELSE <<Head(pkg_cps)>> \o Surviving(Tail(pkg_cps), basenames)

\* lines 203-214
mergeClasspaths(pkg_cps, caller) ==
  Surviving(pkg_cps, classpaths_args_basenames(caller))
    \o [i \in DOMAIN caller |-> abspath(caller[i])]

CollectClasspaths ==
  /\ pc = "classpath"
  /\ package_classpaths' = PackageClasspaths(packages)
  /\ pc' = "override"
  /\ UNCHANGED <<fsVars, args, exitcode, failure, packages, pkgIdx, callVars,
                 scalacopts, classpaths, calls, classpath_errors, depend_reads,
                 aggVisits,
                 extractIdx, stages>>

OverrideClasspaths ==
  /\ pc = "override"
  /\ classpaths' = mergeClasspaths(package_classpaths, args.classpath)
  /\ pc' = "workdir"
  /\ UNCHANGED <<fsVars, pipeVars, args, exitcode, failure, packages, pkgIdx,
                 callVars, scalacopts, calls, classpath_errors, depend_reads,
                 aggVisits>>

\* line 220: the condition of the extraction
ExtractionRequestedLinkOnly == args.linkJars

ExtractionRequested == args.linkJars /\ Truthy(args.outputJar)

\* lines 217-220: the working directory exists from here on
MakeWorkDir ==
  /\ pc = "workdir"
  /\ IF ExtractionRequested /\ classpaths # <<>>
     THEN /\ pc' = "extract"
          /\ extractIdx' = 1
          /\ stages' = Append(stages, "WorkDirReady")
     ELSE /\ pc' = "resources"
          /\ stages' = IF ExtractionRequested
                       THEN stages \o <<"WorkDirReady", "DependenciesExtracted">>
                       ELSE Append(stages, "WorkDirReady")
          /\ UNCHANGED extractIdx
  /\ UNCHANGED <<fsVars, args, exitcode, failure, packages, pkgIdx, callVars,
                 scalacopts, classpaths, calls, classpath_errors, depend_reads,
                 aggVisits,
                 package_classpaths>>

\* the test of a return code, lines 228, 268, 294
NonzeroOnlyOne(returncode) == returncode = 1

Nonzero(returncode) == returncode # 0

\* lines 223-230: one pass of the extraction loop
ExtractJar ==
  /\ pc = "extract"
  /\ extractIdx <= Len(classpaths)
  /\ \E jar_returncode \in ReturnCodes :
       /\ calls' = Append(calls, [cmd |-> "jar", mode |-> "xf",
                                  jar |-> classpaths[extractIdx],
                                  returncode |-> jar_returncode])
       /\ IF Nonzero(jar_returncode)
          THEN /\ Abort([kind |-> "jar", name |-> jar_returncode])
               /\ UNCHANGED <<extractIdx, stages>>
          ELSE /\ extractIdx' = extractIdx + 1
               /\ IF extractIdx = Len(classpaths)
                  THEN /\ pc' = "resources"
                       /\ stages' = Append(stages, "DependenciesExtracted")
                  ELSE UNCHANGED <<pc, stages>>
               /\ UNCHANGED <<exitcode, failure>>
  /\ UNCHANGED <<fsVars, args, packages, pkgIdx, callVars, scalacopts,
                 classpaths, classpath_errors, depend_reads, aggVisits,
                 package_classpaths>>

\* lines 232-234 and copy_dir: the copy of a resource directory may raise
StageResources ==
  /\ pc = "resources"
  /\ \E copied \in BOOLEAN :
       /\ args.resourceDirs = <<>> => copied
       /\ IF copied
          THEN /\ pc' = "sources"
               /\ stages' = Append(stages, "ResourcesStaged")
               /\ UNCHANGED <<exitcode, failure>>
          ELSE /\ Abort([kind |-> "copy_dir", name |-> args.resourceDirs[1]])
               /\ UNCHANGED stages
  /\ UNCHANGED <<fsVars, args, packages, pkgIdx, callVars, scalacopts,
                 classpaths, calls, classpath_errors, depend_reads, aggVisits,
                 package_classpaths,
                 extractIdx>>

\* lines 236-252: the source files and the options
EnumerateSources ==
  /\ pc = "sources"
  /\ scalacopts' = Prefixed(args.scalacOpts)
  /\ stages' = Append(stages, "SourcesEnumerated")
  /\ pc' = "scalac"
  /\ UNCHANGED <<fsVars, args, exitcode, failure, packages, pkgIdx, callVars,
                 classpaths, calls, classpath_errors, depend_reads, aggVisits,
                 package_classpaths,
                 extractIdx>>

\* lines 254-270
PipeRunScalac ==
  /\ pc = "scalac"
  /\ \E scalac_returncode \in ReturnCodes :
       /\ calls' = Append(calls, [cmd |-> "scalac", opts |-> scalacopts,
                                  classpath |-> classpaths,
                                  classpath_str |-> ClasspathArg(classpaths),
                                  returncode |-> scalac_returncode])
       /\ classpath_errors' = classpath_errors \o MissingClasspaths(classpaths)
       /\ IF Nonzero(scalac_returncode)
          THEN /\ Abort([kind |-> "scalac", name |-> scalac_returncode])
               /\ UNCHANGED stages
          ELSE /\ pc' = "package"
               /\ stages' = Append(stages, "Compiled")
               /\ UNCHANGED <<exitcode, failure>>
  /\ UNCHANGED <<fsVars, args, packages, pkgIdx, callVars, scalacopts,
                 classpaths, depend_reads, aggVisits, package_classpaths,
                 extractIdx>>

\* lines 273-296
PipeRunJar ==
  /\ pc = "package"
  /\ IF Truthy(args.outputJar)
     THEN \E jar_returncode \in ReturnCodes :
            /\ calls' = Append(calls,
                  [cmd |-> "jar",
                   mode |-> IF Truthy(args.jarEntryPoint) THEN "cfe" ELSE "cf",
                   returncode |-> jar_returncode])
            /\ IF Nonzero(jar_returncode)
               THEN /\ Abort([kind |-> "jar", name |-> jar_returncode])
                    /\ UNCHANGED stages
               ELSE /\ pc' = "exit"
                    /\ exitcode' = 0
                    /\ stages' = stages \o <<"ArchiveBuilt", "Done">>
                    /\ UNCHANGED failure
     ELSE /\ pc' = "exit"
          /\ exitcode' = 0
          /\ stages' = Append(stages, "Done")
          /\ UNCHANGED <<calls, failure>>
  /\ UNCHANGED <<fsVars, args, packages, pkgIdx, callVars, scalacopts,
                 classpaths, classpath_errors, depend_reads, aggVisits,
                 package_classpaths,
                 extractIdx>>

PipeNext ==
  \/ PipeLookupSeeds
  \/ CollectClasspaths
  \/ OverrideClasspaths
  \/ MakeWorkDir
  \/ ExtractJar
  \/ StageResources
  \/ EnumerateSources
  \/ PipeRunScalac
  \/ PipeRunJar

PipeSpec == PipeInit /\ [][PipeNext]_vars

\* the pipeline revision over package databases with DEPEND files: the plain
\* configuration, one seed, no --classpath
PipeDepInit ==
  PipeInitWith(DependFiles, {NoFault}, { q \in SeedArgs : Len(q) = 1 }, {<<>>})

PipeDepSpec == PipeDepInit /\ [][PipeNext]_vars

\* both revisions of the script
BothInit == Init \/ PipeInit
BothNext == Next \/ PipeNext
BothSpec == BothInit /\ [][BothNext]_vars

\* The script is one sequential process and every call it makes returns, so
\* it keeps taking steps until it exits.  The runs of the plain configuration
\* with a single seed, over every set of DEPEND files:
InitOneSeed == InitWith({NoFault}, { q \in SeedArgs : Len(q) = 1 })

FairSpec == InitOneSeed /\ [][Next]_vars /\ WF_vars(Next)

\* The same for the pipeline revision: every subprocess.call returns.  The
\* runs over no seed, one seed and two seeds, without and with a --classpath
\* entry that overrides, over every departure from the plain configuration:
FairSeedArgs == { <<>>, <<Versioned(PA)>>, <<Versioned(PA), Versioned(PB)>> }
FairCallerCps == { <<>>, << <<"a-1.0", ".jar">> >> }
PipeInitFew == PipeInitWith(NoDependFiles, PipeFaults, FairSeedArgs, FairCallerCps)

FairPipeSpec == PipeInitFew /\ [][PipeNext]_vars /\ WF_vars(PipeNext)

-----------------------------------------------------------------------------
(* Vocabulary of the properties *)

Stripped(token) ==
  IF token # <<>> /\ token[1] = "=" THEN SliceFrom(token, 1) ELSE token

\* the names a package's DEPEND file refers to
Refs(n) ==
  IF n \in Names /\ dependFile[n].exists
  THEN { Stripped(t) : t \in Range(dependFile[n].content) }
  ELSE {}

RECURSIVE Closure(_)
Closure(S) ==
  LET T == S \cup UNION { Refs(n) : n \in S }
  IN  IF T = S THEN S ELSE Closure(T)

\* the names reachable from n over one or more references
Descendants(n) == Closure(Refs(n))

Acyclic == \A n \in Names : n \notin Descendants(n)

InCall == pc \in {"opts_bfs", "cp_bfs"}
\* the while loop of get_field_recursive has ended, line 53 is next
CallComplete == InCall /\ fringe = <<>>
\* a "for package in packages" loop has ended
AggregateComplete == pc \in {"opts_loop", "cp_loop"} /\ pkgIdx > Len(packages)

\* nothing the call started at n can read is defective
Sound(n) ==
  \A m \in {n} \cup Descendants(n) :
    /\ m \in installed
    /\ ebuildFile[m].exists
    /\ dependFile[m].exists =>
         \A t \in Range(dependFile[m].content) : t # <<>> /\ t[1] = "="

\* the bound on the loop passes never cuts a call short
CapNeverBinds == (InCall /\ fringe # <<>>) => Len(visits) < MaxVisits

-----------------------------------------------------------------------------
(* C1: when the dependency graph is acyclic, a finished get_field_recursive
   call has taken the own field of the start package and of every package
   reachable from it exactly once. *)
C1_OncePerPackage ==
  (CallComplete /\ Acyclic) =>
    \A n \in {visits[1]} \cup Descendants(visits[1]) : Count(visits, n) = 1

(* C2: when dev/a-1.0 and dev/b-1.0 depend on each other and the call starts
   at dev/a-1.0, the finished call has taken the own field of each of the two
   exactly once. *)
C2_CycleOncePerPackage ==
  (/\ CallComplete
   /\ visits[1] = PA
   /\ dependFile[PA] = File(<<Versioned(PB)>>)
   /\ dependFile[PB] = File(<<Versioned(PA)>>)) =>
    (Count(visits, PA) = 1 /\ Count(visits, PB) = 1)

(* C3: every get_field_recursive call ends: it reaches its return with an
   empty fringe or the process exits, and it reaches the return whenever
   nothing it can read is defective, whatever cycles, self-references and
   repeated references the DEPEND files hold. *)
C3_TraversalTerminates == InCall ~> CallComplete

\* a call over a cycle with a repeated or self reference has returned
C3_Witness ==
  /\ CallComplete
  /\ visits[1] \in Descendants(visits[1])
  /\ \E n \in Descendants(visits[1]) :
       dependFile[n].exists /\ Len(dependFile[n].content) > Cardinality(Refs(n))

(* C4: when a seed-set aggregate is complete, a seed that is also reachable
   as a dependency of a seed has contributed its own field exactly once. *)
C4_SeedReachableOnce ==
  AggregateComplete =>
    \A n \in Range(packages) :
      n \in UNION { Descendants(m) : m \in Range(packages) } =>
        Count(aggVisits, n) = 1

(* C5: when a seed-set aggregate is complete, every seed has contributed its
   own field, and its classpath entry is in the classpath aggregate. *)
C5_SeedsContribute ==
  AggregateComplete =>
    \A n \in Range(packages) :
      /\ Count(aggVisits, n) >= 1
      /\ pc = "cp_loop" =>
           get_field(n, "classpath").value[1] \in Range(classpaths)

\* an aggregate is complete over a seed without dependencies that nothing
\* depends on
C5_Witness ==
  /\ AggregateComplete
  /\ pc = "cp_loop"
  /\ \E n \in Range(packages) :
       Refs(n) = {} /\ \A m \in Names : n \notin Refs(m)

(* C6: no Package object is ever held for a name that is not installed; a
   call returns, an aggregate is complete or an external process runs only
   if every name met on the way is installed; and the stop on a name that is
   not installed is exit status 1, names that name, and no external process
   has run. *)
C6_MissingPackageAborts ==
  /\ Range(packages) \cup Range(fringe) \cup Range(visits) \subseteq installed
  /\ CallComplete =>
       {visits[1]} \cup Descendants(visits[1]) \subseteq installed
  /\ (AggregateComplete \/ calls # <<>>) =>
       \A n \in Range(packages) : {n} \cup Descendants(n) \subseteq installed
  /\ failure.kind = "not_installed" =>
       /\ pc = "exit" /\ exitcode = 1
       /\ failure.name \notin installed
       /\ calls = <<>>

\* the process stopped inside the while loop of a traversal, on a name that
\* the package at the head of the fringe refers to and that is not installed
C6_Witness ==
  /\ pc = "exit"
  /\ failure.kind = "not_installed"
  /\ visits # <<>>
  /\ fringe # <<>>
  /\ failure.name \in Refs(Head(fringe))
  /\ failure.name \notin Range(packages)

-----------------------------------------------------------------------------
(* Vocabulary of the pipeline properties *)

\* the override has been applied: classpaths holds the final classpath
Merged ==
  \/ pc \in {"workdir", "extract", "resources", "sources", "scalac", "package"}
  \/ (pc = "exit" /\ stages # <<>>)

IsExtraction(c) == c.cmd = "jar" /\ c.mode = "xf"
IsPackaging(c)  == c.cmd = "jar" /\ c.mode \in {"cf", "cfe"}
IsCompiler(c)   == c.cmd = "scalac"

\* an absolute path without empty, "." or ".." components
IsNormalAbsolute(path) ==
  /\ isabs(path)
  /\ \A i \in DOMAIN path : path[i] \notin {".", ".."}
  /\ \A i \in 2..Len(path) : ~(path[i - 1] = "/" /\ path[i] = "/")
  /\ path[Len(path)] # "/"

(* C7: the final classpath is the package-derived entries whose base filename
   no caller-supplied entry has, in their order, followed by every
   caller-supplied entry made absolute, in their order; without caller
   entries it is the package-derived list, without package-derived entries
   the absolutized caller list. *)
C7_MergeResult ==
  Merged =>
    LET callerNames == { basename(c) : c \in Range(args.classpath) }
        kept == SelectSeq(package_classpaths,
                          LAMBDA e : basename(e) \notin callerNames)
        n == Len(kept)
    IN  /\ Len(classpaths) = n + Len(args.classpath)
        /\ SubSeq(classpaths, 1, n) = kept
        /\ \A i \in DOMAIN args.classpath :
             /\ classpaths[n + i] = abspath(args.classpath[i])
             /\ IsNormalAbsolute(classpaths[n + i])
             /\ args.classpath[i] = <<".", "/", "override", "/", "a-1.0", ".jar">>
                  => classpaths[n + i] =
                       <<"/", "work", "/", "override", "/", "a-1.0", ".jar">>
        /\ args.classpath = <<>> => classpaths = package_classpaths
        /\ package_classpaths = <<>> =>
             classpaths = [i \in DOMAIN args.classpath |-> abspath(args.classpath[i])]

\* packages a-1.0 and b-1.0 with --classpath ./override/a-1.0.jar: the
\* package's a-1.0.jar is dropped, b-1.0.jar stays, the caller's copy follows
C7_Witness ==
  /\ Merged
  /\ package_classpaths = << <<"/", "jars", "/", "a-1.0", ".jar">>,
                             <<"/", "jars", "/", "b-1.0", ".jar">> >>
  /\ args.classpath = << <<".", "/", "override", "/", "a-1.0", ".jar">> >>
  /\ classpaths = << <<"/", "jars", "/", "b-1.0", ".jar">>,
                     <<"/", "work", "/", "override", "/", "a-1.0", ".jar">> >>

(* C8: in the final classpath two entries share a base filename only if two
   caller-supplied entries have that base filename. *)
C8_NoDuplicateBasename ==
  Merged =>
    \A i, j \in DOMAIN classpaths :
      (i < j /\ basename(classpaths[i]) = basename(classpaths[j])) =>
        \E k, l \in DOMAIN args.classpath :
          /\ k < l
          /\ basename(args.classpath[k]) = basename(classpaths[i])
          /\ basename(args.classpath[l]) = basename(classpaths[i])

(* C9: in both revisions, a compiler run that returned nonzero is the last
   external process of the run, the process has exited with status 1, and the
   packaging archiver was not invoked. *)
C9_CompilerFailureStops ==
  \A i \in DOMAIN calls :
    (IsCompiler(calls[i]) /\ calls[i].returncode # 0) =>
      /\ i = Len(calls)
      /\ pc = "exit"
      /\ exitcode = 1
      /\ \A j \in DOMAIN calls : ~IsPackaging(calls[j])

\* the pipeline revision, an output archive asked for, dependencies
\* extracted, and the compiler returned 2
C9_Witness ==
  /\ pc = "exit"
  /\ Truthy(args.outputJar)
  /\ Len(calls) >= 2
  /\ IsExtraction(calls[1])
  /\ IsCompiler(calls[Len(calls)])
  /\ calls[Len(calls)].returncode = 2

(* C10: an extraction is run only if archive linking and an output archive
   are both asked for; the extractions are of the classpath entries in order;
   an extraction that returned nonzero is the last external process of the
   run, no resources were staged, and the process has exited with status 1. *)
C10_ExtractionFailFast ==
  /\ (\E i \in DOMAIN calls : IsExtraction(calls[i])) =>
       (args.linkJars /\ args.outputJar # None)
  /\ \A i \in DOMAIN calls :
       (IsExtraction(calls[i]) /\ calls[i].returncode # 0) =>
         /\ i = Len(calls)
         /\ \A j \in 1..i : IsExtraction(calls[j]) /\ calls[j].jar = classpaths[j]
         /\ pc = "exit"
         /\ exitcode = 1
         /\ "ResourcesStaged" \notin Range(stages)

\* the second of three extractions failed
C10_Witness ==
  /\ pc = "exit"
  /\ Len(classpaths) >= 3
  /\ Len(calls) = 2
  /\ IsExtraction(calls[1]) /\ calls[1].returncode = 0
  /\ IsExtraction(calls[2]) /\ calls[2].returncode # 0
  /\ args.resourceDirs # <<>>

-----------------------------------------------------------------------------
(* Vocabulary of the properties of a whole run *)

\* which revision of the script a state belongs to
IsPipeline == "linkJars" \in DOMAIN args

Unmarked(tokens) == \E t \in Range(tokens) : t = <<>> \/ t[1] # "="

SeedNames == { Stripped(t) : t \in Range(args.portagePkgDepends) }

\* the failures that are configuration errors
ConfigKinds == {"not_installed", "no_ebuild", "unknown_field", "unversioned"}

\* a configuration error lies on the way of the run: in the resolver
\* revision anywhere in what the seeds reach, in the pipeline revision at the
\* seeds themselves
ConfigError ==
  \/ Unmarked(args.portagePkgDepends)
  \/ \E n \in (IF IsPipeline THEN SeedNames ELSE Closure(SeedNames)) :
       \/ n \notin installed
       \/ ~ebuildFile[n].exists
       \/ (~IsPipeline /\ dependFile[n].exists /\ Unmarked(dependFile[n].content))

(* C11: a run that stopped on a configuration error (package not installed,
   ebuild file missing, unknown field name, reference without the
   exact-version marker) has exited with status 1 without having invoked any
   external process, and in a configuration that holds such an error no
   external process is ever invoked. *)
C11_ConfigErrorBeforeProcesses ==
  /\ failure.kind \in ConfigKinds =>
       (pc = "exit" /\ exitcode = 1 /\ calls = <<>>)
  /\ ConfigError => calls = <<>>
  /\ (ConfigError /\ pc = "exit") => (exitcode = 1 /\ failure.kind \in ConfigKinds)

\* the pipeline revision asked to extract, compile and package, stopped on
\* the second seed, whose ebuild file is missing
C11_Witness ==
  /\ IsPipeline
  /\ pc = "exit"
  /\ failure.kind = "no_ebuild"
  /\ Len(args.portagePkgDepends) = 2
  /\ failure.name = Stripped(args.portagePkgDepends[2])
  /\ failure.name # Stripped(args.portagePkgDepends[1])
  /\ args.linkJars /\ Truthy(args.outputJar)
  /\ calls = <<>>

\* nothing fatal happened in the run so far: no configuration error lies on
\* its way, every external process invoked returned 0 and no resource copy
\* raised
NoFatalCondition ==
  /\ ~ConfigError
  /\ \A i \in DOMAIN calls : calls[i].returncode = 0
  /\ failure.kind # "copy_dir"

(* C12: every run of the pipeline revision, each external process of which
   returns, ends; it ends with exit status 0 or 1, with 0 exactly when
   nothing fatal happened (every seed installed with its ebuild file, every
   reference marked, every invoked process returned 0, every resource copy
   done), and a run that ended with 0 went through every stage. *)
C12_ExitCode ==
  <>(/\ pc = "exit"
     /\ exitcode \in {0, 1}
     /\ exitcode = 0 <=> NoFatalCondition
     /\ exitcode = 0 => (stages # <<>> /\ stages[Len(stages)] = "Done"))

\* a run that extracted, compiled and packaged with every process returning
\* 0 has ended with exit status 0
C12_Witness ==
  /\ pc = "exit"
  /\ exitcode = 0
  /\ Len(calls) >= 3
  /\ IsExtraction(calls[1])
  /\ IsPackaging(calls[Len(calls)])

\* the words an ebuild line SCALACOPTS="..." declares, <<>> for another line
DeclaredOnLine(line) ==
  LET head == SelectSeq(line, LAMBDA c : c \notin Whitespace)
      close == find(SliceFrom(head, 3), "\"")
  IN  IF Len(head) >= 4 /\ SubSeq(head, 1, 3) = <<"SCALACOPTS", "=", "\"">>
         /\ close > 0
      THEN [i \in 1..(close - 1) |-> <<head[3 + i]>>]
      ELSE <<>>

\* the options the ebuild files of the given packages declare, in order
RECURSIVE DeclaredScalacopts(_)
DeclaredScalacopts(pkgs) ==
  IF pkgs = <<>> THEN <<>>
  ELSE (IF ebuildFile[Head(pkgs)].exists
           /\ ebuildFile[Head(pkgs)].content # <<>>
        THEN DeclaredOnLine(ebuildFile[Head(pkgs)].content[1])
        ELSE <<>>)
       \o DeclaredScalacopts(Tail(pkgs))

(* C13: the options the compiler is run with are the options the visited
   packages declare (SCALACOPTS="deprecation"), in the order of the
   aggregation, followed by the caller's options, each with "-" in front. *)
C13_CompilerOptions ==
  \A i \in DOMAIN calls :
    (IsCompiler(calls[i]) /\ ~IsPipeline) =>
      calls[i].opts =
        Prefixed(DeclaredScalacopts(aggVisits) \o args.scalacOpts.value)

\* the stages of the pipeline in their order
StageOrder ==
  <<"WorkDirReady", "DependenciesExtracted", "ResourcesStaged",
    "SourcesEnumerated", "Compiled", "ArchiveBuilt", "Done">>
OptionalStages == {"DependenciesExtracted", "ArchiveBuilt"}

Rank(stage) == CHOOSE r \in DOMAIN StageOrder : StageOrder[r] = stage

\* the stages completed are in the order of the pipeline, and none was
\* completed without the stages before it that are not optional
InStageOrder(done) ==
  /\ \A i, j \in DOMAIN done : i < j => Rank(done[i]) < Rank(done[j])
  /\ \A i \in DOMAIN done :
       \A r \in 1..(Rank(done[i]) - 1) :
         StageOrder[r] \notin OptionalStages => StageOrder[r] \in Range(done)

\* the step invokes an external process of the given kind
Invokes(IsKind(_)) ==
  /\ Len(calls') = Len(calls) + 1
  /\ IsKind(calls'[Len(calls')])

AllReturnedZero == \A i \in DOMAIN calls : calls[i].returncode = 0

(* C14: the stages are completed in the order WorkDirReady,
   DependenciesExtracted (optional), ResourcesStaged, SourcesEnumerated,
   Compiled, ArchiveBuilt (optional), Done.  An extraction is invoked only
   once the working directory is ready and before any resource is staged;
   resources are staged only after every requested extraction returned 0; the
   compiler is invoked only after the resources are staged and the sources
   enumerated; the packaging archiver is invoked only after the compiler
   returned 0; and no step is taken after a process returned nonzero. *)
C14_StageOrder ==
  [][ /\ InStageOrder(stages')
      /\ Len(stages') >= Len(stages)
      /\ SubSeq(stages', 1, Len(stages)) = stages
      /\ AllReturnedZero
      /\ Invokes(IsExtraction) => stages = <<"WorkDirReady">>
      /\ "ResourcesStaged" \in Range(stages') \ Range(stages) =>
           /\ "WorkDirReady" \in Range(stages)
           /\ \A i \in DOMAIN calls : IsExtraction(calls[i])
           /\ ExtractionRequested =>
                (/\ Len(calls) = Len(classpaths)
                 /\ "DependenciesExtracted" \in Range(stages))
      /\ Invokes(IsCompiler) =>
           /\ stages[Len(stages)] = "SourcesEnumerated"
           /\ "ResourcesStaged" \in Range(stages)
           /\ \A i \in DOMAIN calls : IsExtraction(calls[i])
      /\ Invokes(IsPackaging) =>
           /\ stages[Len(stages)] = "Compiled"
           /\ IsCompiler(calls[Len(calls)])
    ]_vars

\* a run went through every stage, the optional ones included, with two
\* extractions
C14_Witness ==
  /\ pc = "exit"
  /\ stages = StageOrder
  /\ Len(calls) = 4
  /\ IsExtraction(calls[1]) /\ IsExtraction(calls[2])
  /\ IsCompiler(calls[3]) /\ IsPackaging(calls[4])

\* --outputJar was given a path
OutputRequested == args.outputJar # None /\ args.outputJar # Some(<<>>)

NumberOf(IsKind(_)) == Cardinality({ i \in DOMAIN calls : IsKind(calls[i]) })

(* C15: the packaging archiver is invoked only if an output archive was
   asked for and the compiler, and every process before it, returned 0, and a
   run that compiled with an output archive asked for has invoked it when it
   ends; the compiler and the packaging archiver are each invoked at most
   once; a process that returned nonzero is the last one invoked. *)
C15_PackagingOnce ==
  /\ NumberOf(IsCompiler) <= 1
  /\ NumberOf(IsPackaging) <= 1
  /\ \A i \in DOMAIN calls : calls[i].returncode # 0 => i = Len(calls)
  /\ \A i \in DOMAIN calls :
       IsPackaging(calls[i]) =>
         /\ OutputRequested
         /\ i = Len(calls) /\ i > 1
         /\ IsCompiler(calls[i - 1])
         /\ "Compiled" \in Range(stages)
  /\ (pc = "exit" /\ OutputRequested /\ "Compiled" \in Range(stages)) =>
       NumberOf(IsPackaging) = 1
  /\ (pc = "exit" /\ ~OutputRequested) => NumberOf(IsPackaging) = 0

\* the packaging archiver, run with an entry point, returned nonzero and the
\* run ended there
C15_Witness ==
  /\ pc = "exit"
  /\ exitcode = 1
  /\ calls # <<>>
  /\ IsPackaging(calls[Len(calls)])
  /\ calls[Len(calls)].mode = "cfe"
  /\ calls[Len(calls)].returncode # 0

\* the own values of the given packages, one after the other
RECURSIVE OwnValues(_, _)
OwnValues(pkgs, name) ==
  IF pkgs = <<>> THEN <<>>
  ELSE get_field(Head(pkgs), name).value \o OwnValues(Tail(pkgs), name)

\* everything the running call has enqueued so far, in the order of enqueuing
Enqueued == Tail(visits) \o fringe

(* C16: in a get_field_recursive call the contents are the own values of the
   start package followed by the own values of the packages dequeued, in the
   order in which they were enqueued, one after the other with nothing left
   out: a value that several visited packages have is there once for each of
   them.  The fringe is first-in first-out: a pass of the loop dequeues the
   oldest entry and appends what it discovers, the dependencies of that
   entry. *)
C16_BreadthFirstOrder ==
  [][ InCall' =>
        /\ visits'[1] = packages'[pkgIdx']
        /\ field_contents' = OwnValues(visits', fieldname')
        /\ \A v \in Range(field_contents') :
             Count(field_contents', v) =
               Cardinality({ i \in DOMAIN visits' :
                               v \in Range(get_field(visits'[i], fieldname').value) })
        /\ InCall =>
             /\ Len(visits') = Len(visits) + 1
             /\ visits'[Len(visits')] = Head(fringe)
             /\ Len(Enqueued') >= Len(Enqueued)
             /\ SubSeq(Enqueued', 1, Len(Enqueued)) = Enqueued
             /\ \A i \in (Len(Enqueued) + 1)..Len(Enqueued') :
                  Enqueued'[i] \in Refs(Head(fringe))
    ]_vars

\* a classpath call visited dev/a-1.0 and sci/a-1.0, which both have the
\* value /jars/a-1.0.jar, and returned it twice
C16_Witness ==
  /\ CallComplete
  /\ fieldname = "classpath"
  /\ {PA, PC} \subseteq Range(visits)
  /\ Count(visits, PA) = 1 /\ Count(visits, PC) = 1
  /\ Count(field_contents, <<"/", "jars", "/", "a-1.0", ".jar">>) = 2

\* the classpath entry of a package
ClasspathEntry(n) == join(pkgjar_path, get_noncategory_pkgname(n) \o <<".jar">>)

\* the classpath derived from the packages, in either revision
PackageDerived == IF IsPipeline THEN package_classpaths ELSE classpaths

(* C17: when the compiler is invoked, the classpath derived from the packages
   holds the classpath entry of every package that the seeds reach over the
   DEPEND files. *)
C17_ClasspathCoversClosure ==
  (\E i \in DOMAIN calls : IsCompiler(calls[i])) =>
    \A n \in Closure(SeedNames) : ClasspathEntry(n) \in Range(PackageDerived)

\* the paths of a colon-joined classpath string
RECURSIVE SplitColon(_)
SplitColon(s) ==
  LET i == find(s, ":")
  IN  IF i = 0 THEN <<s>>
      ELSE <<SubSeq(s, 1, i - 1)>> \o SplitColon(SubSeq(s, i + 1, Len(s)))

(* C18: whatever classpath paths do not exist, the pipeline invokes the
   compiler once it has enumerated the sources, with every entry of the final
   classpath in the colon-joined string, the missing ones included; each
   missing entry is reported, in order; and a run that ended with status 1
   after the classpath was merged ended on a process that returned nonzero
   (or on a resource copy that raised). *)
C18_MissingClasspathNoAbort ==
  /\ \A i \in DOMAIN calls :
       IsCompiler(calls[i]) =>
         /\ classpaths # <<>> =>
              (/\ calls[i].classpath_str # None
               /\ SplitColon(calls[i].classpath_str.value) = classpaths)
         /\ classpaths = <<>> => calls[i].classpath_str = None
         /\ classpath_errors =
              SelectSeq(classpaths, LAMBDA c : c \in nonexistent)
  /\ (pc = "package" \/ (pc = "exit" /\ "SourcesEnumerated" \in Range(stages))) =>
       NumberOf(IsCompiler) = 1
  /\ (pc = "exit" /\ Merged /\ exitcode = 1) =>
       \/ (calls # <<>> /\ calls[Len(calls)].returncode # 0)
       \/ failure.kind = "copy_dir"
  /\ (pc = "exit" /\ Merged /\ AllReturnedZero /\ failure.kind # "copy_dir") =>
       exitcode = 0

\* two of the three classpath entries do not exist; both were reported, the
\* compiler was run with all three and returned 0, and the run ended with 0
C18_Witness ==
  /\ pc = "exit"
  /\ exitcode = 0
  /\ Len(classpaths) = 3
  /\ Len(classpath_errors) = 2
  /\ \E i \in DOMAIN calls :
       /\ IsCompiler(calls[i])
       /\ Range(classpath_errors) \subseteq Range(SplitColon(calls[i].classpath_str.value))

(* C19: the dependency list of a seed Package object that has a DEPEND file
   is read from the package database at most once in a run, whatever the
   number of fields the object is asked for. *)
C19_DependenciesReadOnce ==
  \A i \in DOMAIN depend_reads :
    dependFile[packages[i]].exists => depend_reads[i] <= 1

\* the direct dependency list of the start package of the running call
DirectDeps ==
  IF dependFile[visits[1]].exists THEN dependFile[visits[1]].content ELSE <<>>

(* C20: in one get_field_recursive call seen only grows, and a pass of the
   loop enqueues exactly the names it adds to seen, each once; so a package
   contributes at most as often as it occurs in the start package's direct
   dependency list, plus one, plus one more if it is the start package, and
   the dequeues number at most the length of that list plus the number of
   names in seen, which are names the start package reaches. *)
C20_DiscoveryBound ==
  [][ InCall' =>
        /\ seen' \subseteq Descendants(visits'[1])
        /\ \A n \in Names :
             Count(visits', n) <=
               Count(DirectDeps', Versioned(n)) + 1 + (IF n = visits'[1] THEN 1 ELSE 0)
        /\ Len(visits') - 1 + Len(fringe') = Len(DirectDeps') + Cardinality(seen')
        /\ Len(visits') - 1 <= Len(DirectDeps') + Cardinality(Names)
        /\ InCall =>
             /\ seen \subseteq seen'
             /\ Len(Enqueued') - Len(Enqueued) = Cardinality(seen' \ seen)
             /\ { Enqueued'[i] : i \in (Len(Enqueued) + 1)..Len(Enqueued') }
                  = seen' \ seen
    ]_vars

\* the start package lists dev/a-1.0 twice and dev/a-1.0 refers to itself:
\* it contributed three times, and the call is over after three dequeues
C20_Witness ==
  /\ CallComplete
  /\ visits[1] # PA
  /\ Count(DirectDeps, Versioned(PA)) = 2
  /\ Count(visits, PA) = 3
  /\ Len(visits) - 1 = Len(DirectDeps) + Cardinality(seen)

\* the package-derived paths that were dropped: a caller-supplied entry has
\* their base filename
Overridden ==
  { package_classpaths[i] : i \in
      { j \in DOMAIN package_classpaths :
          \E c \in Range(args.classpath) :
            basename(c) = basename(package_classpaths[j]) } }

\* the archives handed to "jar xf" so far, in order
Extracted ==
  LET xs == SelectSeq(calls, IsExtraction)
  IN  [i \in DOMAIN xs |-> xs[i].jar]

\* the entries of the classpath string a compiler call was given
CompilerClasspath(call) ==
  IF call.classpath_str = None THEN <<>>
  ELSE SplitColon(call.classpath_str.value)

\* the paths the caller supplied, made absolute
CallerAbsolute == { abspath(c) : c \in Range(args.classpath) }

\* path d is neither extracted nor in a compiler's classpath
NeverUsed(d) ==
  /\ d \notin Range(Extracted)
  /\ \A i \in DOMAIN calls :
       IsCompiler(calls[i]) => d \notin Range(CompilerClasspath(calls[i]))

\* the archives extracted are the entries of the merged classpath from its
\* first on, in its order, and all of them once the extraction is done; a
\* compiler's classpath is the merged classpath
ExtractsMerged ==
  /\ Len(Extracted) <= Len(classpaths)
  /\ Extracted = SubSeq(classpaths, 1, Len(Extracted))
  /\ ("DependenciesExtracted" \in Range(stages)) => Extracted = classpaths
  /\ \A i \in DOMAIN calls :
       IsCompiler(calls[i]) => CompilerClasspath(calls[i]) = classpaths

(* C21 as stated: a package-derived archive that was dropped in favour of a
   caller-supplied entry with its base filename is never extracted and never
   in the compiler's classpath, and the extraction extracts exactly the
   entries of the merged classpath, in merged order. *)
C21_DroppedPathNeverUsed ==
  Merged =>
    /\ \A d \in Overridden : NeverUsed(d)
    /\ ExtractsMerged

(* C21, amended: a package-derived archive that was dropped in favour of a
   caller-supplied entry is never extracted and never in the compiler's
   classpath, unless the caller supplied that very path, and no dropped
   archive is among the package-derived entries of the merged classpath; the
   extraction extracts exactly the entries of the merged classpath, in merged
   order, the caller-supplied ones included. *)
C21_OverriddenNeverUsed ==
  Merged =>
    /\ \A d \in Overridden \ CallerAbsolute : NeverUsed(d)
    /\ \A j \in 1..(Len(classpaths) - Len(args.classpath)) :
         classpaths[j] \notin Overridden
    /\ ExtractsMerged

\* /jars/a-1.0.jar was dropped for ./override/a-1.0.jar; /jars/b-1.0.jar and
\* the caller's archive were extracted, in that order, and the compiler ran
C21_Witness ==
  /\ Overridden = { <<"/", "jars", "/", "a-1.0", ".jar">> }
  /\ Extracted = << <<"/", "jars", "/", "b-1.0", ".jar">>,
                    <<"/", "work", "/", "override", "/", "a-1.0", ".jar">> >>
  /\ \E i \in DOMAIN calls : IsCompiler(calls[i])

=============================================================================
